---- MODULE Spec2Model ----
(***************************************************************************)
(* A model of backlog_document_exporter: the RateLimiter and BacklogClient *)
(* of client.py and the export / download / list commands of cli.py.       *)
(*                                                                         *)
(* Time is counted in units of 0.55 s (the default interval, 1.1 s, is 2). *)
(* Text (node names, file names,                                           *)
(* Content-Disposition headers) is a sequence of one-character strings, a  *)
(* path is a sequence of such texts.                                       *)
(***************************************************************************)
EXTENDS Integers, Sequences, FiniteSets, TLC

VARIABLES
    pc,           \* position of the running command
    wall,         \* the system clock, what time.time() returns
    last_call,    \* RateLimiter._last_call
    now,          \* wait(): the local `now`
    sleep_time,   \* wait(): the local `sleep_time`
    remaining,    \* wait(): what is left of the running time.sleep()
    caller,       \* who called wait(): "wait" (directly) or "_request"
    calls,        \* history: number of wait() calls that have returned
    prev_last,    \* history: _last_call before the latest stamp
    backstep,     \* history: the clock was set back since the latest stamp
    gap_backstep, \* history: ... between the two latest stamps
    slept,        \* history: the latest wait() called time.sleep()
    trace,        \* history: HTTP requests, directories made, files written
    cmd,          \* main(): args.command
    count,        \* get_document_list: the page size asked for
    server_docs,  \* the server's document list
    documents,    \* get_document_list: the local `documents`
    offset,       \* get_document_list: the local `offset`
    entry_last,   \* history: _last_call when get_document_list was entered
    tree,         \* the server's document tree: tree["activeTree"]["children"]
    docs,         \* export_all_documents: the local `docs`
    doc_i,        \* export_all_documents: index of the document being exported
    atts,         \* download_attachments: the local `attachments`
    att_j,        \* download_attachments: index of the attachment being downloaded
    served,       \* history: the attachment list the server gave for each document
    chosen,       \* history: download command, the download_attachment call that just returned
    dirs,         \* the file system: the directories
    files         \* the file system: the files, path -> what was written

limVars == <<now, sleep_time, remaining, caller, calls, prev_last, backstep,
             gap_backstep, slept>>
listVars == <<count, server_docs, documents, offset, entry_last>>
expVars == <<tree, docs, doc_i, atts, att_j, served, chosen, dirs, files>>
progVars == <<cmd, listVars, expVars>>

(***************************************************************************)
(* Bounds of the model                                                     *)
(***************************************************************************)
StartTime == 3
MaxTime == 9
MaxStep == 2
MaxCalls == 3
MaxPage == 3
MaxDocs == 7

Max(a, b) == IF a >= b THEN a ELSE b

(***************************************************************************)
(* client.py: RateLimiter                                                  *)
(***************************************************************************)
Interval == 2

\* mutant: the interval left out of the sleep
SleepTime_NoInterval(last, t) == last - t

\* mutant: the sleep computed as the elapsed time minus the interval
SleepTime_Swapped(last, t) == (t - last) - Interval

\* wait(), line 17: sleep_time = self._last_call + self.interval - now
SleepTime(last, t) == last + Interval - t

\* what time.time() returns on line 20 when the clock only advanced by the
\* sleep of line 19
WaitReturn(last, t) == t + Max(SleepTime(last, t), 0)

\* wait(), lines 16-18: read the clock, compute the sleep, start sleeping
WaitEnter(who) ==
    /\ pc = "idle"
    /\ calls < MaxCalls
    /\ caller' = who
    /\ now' = wall
    /\ sleep_time' = SleepTime(last_call, wall)
    /\ IF sleep_time' > 0
       THEN /\ pc' = "sleep"
            /\ remaining' = sleep_time'
            /\ slept' = TRUE
       ELSE /\ pc' = "stamp"
            /\ remaining' = 0
            /\ slept' = FALSE
    /\ UNCHANGED <<wall, last_call, calls, prev_last, backstep, gap_backstep, trace, progVars>>

\* a direct call of RateLimiter.wait()
CallWait == WaitEnter("wait")

\* BacklogClient._request, line 68: self.rate_limiter.wait()
CallRequest == WaitEnter("_request")

\* wait(), line 19: time.sleep(sleep_time) returns once that much time passed
SleepReturns ==
    /\ pc = "sleep"
    /\ remaining = 0
    /\ pc' = "stamp"
    /\ UNCHANGED <<wall, last_call, limVars, trace, progVars>>

\* wait(), line 20: self._last_call = time.time()
WaitStamp ==
    /\ pc = "stamp"
    /\ last_call' = wall
    /\ prev_last' = last_call
    /\ calls' = calls + 1
    /\ gap_backstep' = backstep
    /\ backstep' = FALSE
    /\ pc' = IF caller = "_request" THEN "http" ELSE "idle"
    /\ now' = 0
    /\ sleep_time' = 0
    /\ UNCHANGED <<wall, remaining, caller, slept, trace, progVars>>

\* _request, lines 72-89: the HTTP call that follows the wait
HttpCall ==
    /\ pc = "http"
    /\ trace' = Append(trace, [kind |-> "request", what |-> "any", ok |-> TRUE])
    /\ pc' = "idle"
    /\ UNCHANGED <<wall, last_call, limVars, progVars>>

\* one unit of time passes
Tick ==
    /\ pc \in {"idle", "sleep", "stamp", "http"}
    /\ wall < MaxTime
    /\ wall' = wall + 1
    /\ remaining' = Max(remaining - 1, 0)
    /\ UNCHANGED <<pc, last_call, now, sleep_time, caller, calls, prev_last,
                   backstep, gap_backstep, slept, trace, progVars>>

\* the system clock is set back (time.time() is the wall clock)
ClockBack ==
    /\ pc \in {"idle", "sleep", "stamp", "http"}
    /\ \E d \in 1..MaxStep :
         /\ wall - d >= 0
         /\ wall' = wall - d
    /\ backstep' = TRUE
    /\ UNCHANGED <<pc, last_call, now, sleep_time, remaining, caller, calls,
                   prev_last, gap_backstep, slept, trace, progVars>>

\* the system clock is set forward
ClockForward ==
    /\ pc \in {"idle", "sleep", "stamp", "http"}
    /\ \E d \in 2..(MaxStep + 1) :
         /\ wall + d <= MaxTime
         /\ wall' = wall + d
    /\ UNCHANGED <<pc, last_call, limVars, trace, progVars>>

vars == <<pc, wall, last_call, limVars, trace, progVars>>

\* the locals and history of wait() before any call
LimiterIdle ==
    /\ now = 0
    /\ sleep_time = 0
    /\ remaining = 0
    /\ caller = "wait"
    /\ calls = 0
    /\ prev_last = 0
    /\ backstep = FALSE
    /\ gap_backstep = FALSE
    /\ slept = FALSE

\* get_document_list not called
ListIdle ==
    /\ count = 0
    /\ server_docs = <<>>
    /\ documents = <<>>
    /\ offset = 0
    /\ entry_last = 0

\* no export or download running, an empty file system
ExportIdle ==
    /\ tree = <<>>
    /\ docs = <<>>
    /\ doc_i = 0
    /\ atts = <<>>
    /\ att_j = 0
    /\ served = <<>>
    /\ chosen = <<>>
    /\ dirs = {}
    /\ files = <<>>

InitLimiter ==
    /\ pc = "idle"
    /\ cmd = "wait"
    /\ ListIdle
    /\ ExportIdle
    /\ LimiterIdle
    /\ wall = StartTime
    /\ last_call = 0
    /\ trace = <<>>

NextLimiter ==
    \/ CallWait
    \/ CallRequest
    \/ SleepReturns
    \/ WaitStamp
    \/ HttpCall
    \/ Tick
    \/ ClockBack
    \/ ClockForward

SpecLimiter == InitLimiter /\ [][NextLimiter]_vars

(***************************************************************************)
(* RateLimiter: the claims                                                 *)
(***************************************************************************)
\* the clock value read by the running wait() is earlier than _last_call
ClockBehind == pc \in {"sleep", "stamp"} /\ now < last_call

\* C1 as stated: the timestamps two consecutive wait() calls record in
\* _last_call differ by at least the interval, whatever the clock does.
C1_GapAlways == calls >= 2 => last_call - prev_last >= Interval

\* C1, amended: the timestamps two consecutive wait() calls record in
\* _last_call differ by at least the interval, provided the system clock was not
\* set back between the two recordings.
C1_GapUnlessClockSetBack ==
    (calls >= 2 /\ ~gap_backstep) => last_call - prev_last >= Interval

\* a second wait(), made by _request, slept and stamped exactly one interval
\* after the first, the clock never set back
C1_Witness ==
    /\ calls >= 2
    /\ ~gap_backstep
    /\ slept
    /\ caller = "_request"
    /\ pc = "http"
    /\ last_call - prev_last = Interval

\* C8 as stated: when the clock value wait() reads is earlier than _last_call,
\* the computed sleep is not positive and wait() does not sleep.
C8_NoOpWhenClockBehind == ClockBehind => (sleep_time <= 0 /\ ~slept)

\* C8, amended: when the clock value wait() reads is earlier than _last_call,
\* the computed sleep is longer than the interval and wait() sleeps before it
\* records the new timestamp.
C8_SleepsLongerWhenClockBehind == ClockBehind => (sleep_time > Interval /\ slept)

\* wait() read a clock earlier than _last_call, slept, and is about to stamp
C8_Witness == ClockBehind /\ pc = "stamp" /\ slept /\ remaining = 0

(***************************************************************************)
(* client.py: BacklogClient._request and the paginated document list       *)
(***************************************************************************)
\* _request, line 68, for a command that runs alone: wait() returns at the time
\* it read plus the time it slept
Throttle ==
    /\ wall' = WaitReturn(last_call, wall)
    /\ last_call' = wall'
    /\ UNCHANGED limVars

\* _request, lines 72-77: the HTTP request as the trace records it
HttpRequest(what, arg, ok) == [kind |-> "request", what |-> what, arg |-> arg, ok |-> ok]

\* mutant: the error is swallowed and the caller goes on
RaiseForStatus_Swallow(ok, next) == next

\* _request, lines 78-84: raise_for_status() turns a non-2xx answer into a
\* RuntimeError, which no caller catches
RaiseForStatus(ok, next) == IF ok THEN next ELSE "RuntimeError"

\* get_project_id, lines 92-95
GetProjectId ==
    /\ pc = "get_project_id"
    /\ Throttle
    /\ \E ok \in BOOLEAN, statuses \in {0, 1} :
         /\ trace' = Append(trace, HttpRequest("statuses", <<>>, ok))
         /\ pc' = RaiseForStatus(ok,
                    IF statuses = 0 THEN "RuntimeError"
                    ELSE IF cmd = "list" THEN "get_document_list"
                    ELSE "get_document_tree")
    /\ UNCHANGED progVars

MinCount == 1
MaxCount == 100

\* mutant: the upper limit off by one
ValidCount_OffByOne(c) == ~(c < MinCount \/ c > MaxCount + 1)

\* get_document_list, line 120, negated: the page size is accepted
ValidCount(c) == ~(c < MinCount \/ c > MaxCount)

\* the server's answer to GET /documents with offset and count
Page(all, off, c) ==
    SubSeq(all, off + 1, IF off + c < Len(all) THEN off + c ELSE Len(all))

\* mutant: a full page ends the loop too
LastPage_Inclusive(page, c) == Len(page) <= c

\* get_document_list, line 128: the page just read ends the loop
LastPage(page, c) == Len(page) < c

\* get_document_list, lines 120-124: the validation and the loop's set-up
GetDocumentList ==
    /\ pc = "get_document_list"
    /\ entry_last' = last_call
    /\ IF ValidCount(count)
       THEN /\ pc' = "page"
            /\ documents' = <<>>
            /\ offset' = 0
       ELSE /\ pc' = "ValueError"
            /\ UNCHANGED <<documents, offset>>
    /\ UNCHANGED <<wall, last_call, limVars, trace, cmd, count, server_docs, expVars>>

\* get_document_list, lines 126-131: one turn of the loop, with
\* get_document_list_page (lines 105-110) and its _request
GetDocumentListPage ==
    /\ pc = "page"
    /\ Throttle
    /\ \E ok \in BOOLEAN :
         LET page == Page(server_docs, offset, count) IN
         /\ trace' = Append(trace, HttpRequest("documents", <<offset, count>>, ok))
         /\ IF ~ok
            THEN /\ pc' = RaiseForStatus(ok, "page")
                 /\ UNCHANGED <<documents, offset>>
            ELSE /\ documents' = documents \o page
                 /\ IF LastPage(page, count)
                    THEN /\ pc' = "returned"
                         /\ UNCHANGED offset
                    ELSE /\ pc' = "page"
                         /\ offset' = offset + count
    /\ UNCHANGED <<cmd, count, server_docs, entry_last, expVars>>

\* the page sizes tried and the sizes of the server's list
Counts == ((MinCount - 2)..MaxPage) \cup {MaxCount, MaxCount + 1}
ServerSizes == (0..MaxDocs) \cup {2 * MaxCount, 2 * MaxCount + 37}

InitList ==
    /\ pc = "get_project_id"
    /\ cmd = "list"
    /\ count \in Counts
    /\ server_docs \in {[i \in 1..n |-> i] : n \in ServerSizes}
    /\ documents = <<>>
    /\ offset = 0
    /\ entry_last = 0
    /\ ExportIdle
    /\ LimiterIdle
    /\ wall = StartTime
    /\ last_call = 0
    /\ trace = <<>>

NextList ==
    \/ GetProjectId
    \/ GetDocumentList
    \/ GetDocumentListPage

SpecList == InitList /\ [][NextList]_vars

\* the page requests made so far
PageRequests == SelectSeq(trace, LAMBDA e : e.kind = "request" /\ e.what = "documents")

\* C2: with 1 <= count <= 100 and a server that answers every page request,
\* get_document_list returns exactly the server's documents in order, asks for
\* the offsets 0, count, 2*count, ..., and makes floor(N/count)+1 requests, all
\* pages but the last one full.
C2_ListComplete ==
    pc = "returned" =>
        /\ documents = server_docs
        /\ Len(PageRequests) = (Len(server_docs) \div count) + 1
        /\ \A k \in 1..Len(PageRequests) :
             /\ PageRequests[k].arg = <<(k - 1) * count, count>>
             /\ PageRequests[k].ok

\* pages of 100, 100 and 37 documents were read: 237 documents in 3 requests
C2_Witness ==
    /\ pc = "returned"
    /\ count = MaxCount
    /\ Len(documents) = 237
    /\ Len(PageRequests) = 3

\* C3: a page size below 1 or above 100 ends get_document_list with a
\* ValueError before any page request and with _last_call as it was on entry.
C3_RejectsBadCount ==
    (count < 1 \/ count > 100) =>
        /\ PageRequests = <<>>
        /\ pc \in {"get_project_id", "get_document_list", "RuntimeError", "ValueError"}
        /\ pc = "ValueError" => last_call = entry_last

\* a page size of 101 was refused after the project lookup had stamped _last_call
C3_Witness ==
    /\ pc = "ValueError"
    /\ count = 101
    /\ PageRequests = <<>>
    /\ last_call > 0

(***************************************************************************)
(* cli.py: the document tree and its flattening                            *)
(***************************************************************************)
MaxNodes == 3

Digits == <<"0", "1", "2", "3", "4", "5", "6", "7", "8", "9">>

\* str() of a non-negative integer
RECURSIVE Str(_)
Str(n) == IF n < 10 THEN <<Digits[n + 1]>>
          ELSE Append(Str(n \div 10), Digits[(n % 10) + 1])

\* the node names the server may send: "A/B", "A\B", "A_B", ".." and ""
\* (a node without a name reads as "", line 102)
Names == { <<"A", "/", "B">>, <<"A", "\\", "B">>, <<"A", "_", "B">>,
           <<".", ".">>, <<>> }

\* the server's trees of n nodes: every node has a name, may carry an id (its
\* place in the tree written in decimal, so no two nodes share one) and has
\* children; i is the place of the first node under the parent `base`
RECURSIVE ForestsFrom(_, _, _)
ForestsFrom(n, base, i) ==
    IF n = 0 THEN {<<>>}
    ELSE UNION {
        { <<[name |-> nm, hasId |-> h, id |-> 10 * base + i, children |-> ch]>> \o rest :
            nm \in Names, h \in BOOLEAN,
            ch \in ForestsFrom(k - 1, 10 * base + i, 1),
            rest \in ForestsFrom(n - k, base, i + 1) } : k \in 1..n }

Forests(n) == UNION { ForestsFrom(m, 0, 1) : m \in 0..n }

\* safe_name, line 89
SafeName(name) ==
    [i \in 1..Len(name) |-> IF name[i] \in {"\\", "/"} THEN "_" ELSE name[i]]

\* mutant: the children of a node that carries an id are not visited
RECURSIVE Gather_Elif(_, _)
Gather_Elif(nodes, path) ==
    IF nodes = <<>> THEN <<>>
    ELSE LET node == Head(nodes)
             new_path == Append(path, SafeName(node.name))
         IN  (IF node.hasId THEN <<[id |-> Str(node.id), parts |-> new_path]>>
              ELSE IF node.children # <<>> THEN Gather_Elif(node.children, new_path)
              ELSE <<>>)
             \o Gather_Elif(Tail(nodes), path)

\* gather, lines 100-108: what one call appends to `docs`
RECURSIVE Gather(_, _)
Gather(nodes, path) ==
    IF nodes = <<>> THEN <<>>
    ELSE LET node == Head(nodes)
             name == SafeName(node.name)
             new_path == Append(path, name)
         IN  (IF node.hasId THEN <<[id |-> Str(node.id), parts |-> new_path]>> ELSE <<>>)
             \o (IF node.children # <<>> THEN Gather(node.children, new_path) ELSE <<>>)
             \o Gather(Tail(nodes), path)

(***************************************************************************)
(* The file system under os.path.join, os.makedirs and open                *)
(***************************************************************************)
\* the working directory and the output directory given on the command line
Cwd == << <<"w">> >>
OutputDir == Cwd \o << <<"o">> >>

\* the directories that exist before the command runs
InitialDirs == { SubSeq(Cwd, 1, k) : k \in 0..Len(Cwd) }

\* where one more path component leads: "" and "." stay, ".." goes up
Step(path, seg) ==
    IF seg \in {<<>>, <<".">>} THEN path
    ELSE IF seg = <<".", ".">>
         THEN (IF path = <<>> THEN <<>> ELSE SubSeq(path, 1, Len(path) - 1))
         ELSE Append(path, seg)

\* the place os.path.join(base, *segs) names
RECURSIVE Locate(_, _)
Locate(base, segs) ==
    IF segs = <<>> THEN base ELSE Locate(Step(base, Head(segs)), Tail(segs))

\* os.makedirs(os.path.join(base, *segs), exist_ok=True): every directory on
\* the way is made
Makedirs(ds, base, segs) ==
    ds \cup { SubSeq(base, 1, k) : k \in 0..Len(base) }
       \cup { Locate(base, SubSeq(segs, 1, k)) : k \in 0..Len(segs) }

\* export_all_documents, lines 113-114: the directory of every document is made
RECURSIVE MakeAllDirs(_, _)
MakeAllDirs(ds, ps) ==
    IF ps = <<>> THEN ds
    ELSE MakeAllDirs(Makedirs(ds, OutputDir, Head(ps).parts), Tail(ps))

\* export_all_documents, lines 95-114, with get_document_tree (lines 133-134):
\* fetch the tree, flatten it, make the directories
GetDocumentTree ==
    /\ pc = "get_document_tree"
    /\ Throttle
    /\ \E ok \in BOOLEAN :
         /\ trace' = Append(trace, HttpRequest("tree", <<>>, ok))
         /\ IF ok
            THEN /\ docs' = Gather(tree, <<>>)
                 /\ dirs' = MakeAllDirs(dirs, docs')
                 /\ doc_i' = 1
                 /\ pc' = IF docs' = <<>> THEN "done" ELSE "get_document_info"
            ELSE /\ pc' = RaiseForStatus(ok, "get_document_info")
                 /\ UNCHANGED <<docs, dirs, doc_i>>
    /\ UNCHANGED <<cmd, listVars, tree, atts, att_j, served, chosen, files>>

InitGather ==
    /\ pc = "get_project_id"
    /\ cmd = "export"
    /\ ListIdle
    /\ tree \in Forests(MaxNodes)
    /\ docs = <<>>
    /\ doc_i = 0
    /\ atts = <<>>
    /\ att_j = 0
    /\ served = <<>>
    /\ chosen = <<>>
    /\ dirs = InitialDirs
    /\ files = <<>>
    /\ LimiterIdle
    /\ wall = StartTime
    /\ last_call = 0
    /\ trace = <<>>

NextGather ==
    \/ GetProjectId
    \/ GetDocumentTree

SpecGather == InitGather /\ [][NextGather]_vars

(***************************************************************************)
(* The flattening: the claim                                               *)
(***************************************************************************)
\* the places of a forest: <<i>> is its i-th tree, <<i, j>> that tree's j-th child
RECURSIVE Positions(_)
Positions(nodes) ==
    UNION { {<<i>>} \cup { <<i>> \o q : q \in Positions(nodes[i].children) } :
            i \in 1..Len(nodes) }

RECURSIVE NodeAt(_, _)
NodeAt(nodes, p) ==
    IF Len(p) = 1 THEN nodes[p[1]] ELSE NodeAt(nodes[p[1]].children, Tail(p))

\* p comes before q in a depth-first pre-order walk in child order: p is an
\* ancestor of q, or p branches off to the left of q
Before(p, q) ==
    \/ Len(p) < Len(q) /\ SubSeq(q, 1, Len(p)) = p
    \/ \E k \in 1..Len(p) :
         /\ k <= Len(q)
         /\ SubSeq(p, 1, k - 1) = SubSeq(q, 1, k - 1)
         /\ p[k] < q[k]

\* s is name with every '/' and '\' replaced by '_' and the rest kept
Replaced(name, s) ==
    /\ Len(s) = Len(name)
    /\ \A i \in 1..Len(name) :
         /\ name[i] \in {"/", "\\"} => s[i] = "_"
         /\ name[i] \notin {"/", "\\"} => s[i] = name[i]

\* the places of the nodes that carry an id
DocPositions(nodes) == { p \in Positions(nodes) : NodeAt(nodes, p).hasId }

\* ds lists the documents of the forest in pre-order, each with the replaced
\* names of its ancestors and itself as path
IsFlattening(nodes, ds) ==
    /\ Len(ds) = Cardinality(DocPositions(nodes))
    /\ \A p \in DocPositions(nodes) :
         LET k == Cardinality({ q \in DocPositions(nodes) : Before(q, p) }) + 1 IN
         /\ ds[k].id = Str(NodeAt(nodes, p).id)
         /\ Len(ds[k].parts) = Len(p)
         /\ \A j \in 1..Len(p) :
              Replaced(NodeAt(nodes, SubSeq(p, 1, j)).name, ds[k].parts[j])

\* the tree has been flattened
Gathered == cmd = "export" /\ pc \in {"get_document_info", "done"} /\ doc_i = 1

\* a folder without id holding two leaf documents, and nothing else
FolderOfTwo(nodes) ==
    /\ Len(nodes) = 1
    /\ ~nodes[1].hasId
    /\ Len(nodes[1].children) = 2
    /\ \A j \in 1..2 : nodes[1].children[j].hasId /\ nodes[1].children[j].children = <<>>

\* C4: the pairs that export gathers are those of a depth-first pre-order walk in
\* child order: one pair for each node that carries an id, its path the names
\* from the top-level ancestor down to the node with '/' and '\' replaced by
\* '_'; a folder without id holding two leaf documents gives two pairs whose
\* paths start with the folder's name.
C4_GatherIsPreorder ==
    Gathered =>
        /\ IsFlattening(tree, docs)
        /\ FolderOfTwo(tree) =>
             /\ Len(docs) = 2
             /\ \A k \in 1..2 :
                  /\ Len(docs[k].parts) = 2
                  /\ Replaced(tree[1].name, docs[k].parts[1])

\* a folder "A/B" without id holding the leaf documents "A\B" and ".." was
\* flattened
C4_Witness ==
    /\ Gathered
    /\ FolderOfTwo(tree)
    /\ tree[1].name = <<"A", "/", "B">>
    /\ docs = << [id |-> <<"1", "1">>, parts |-> << <<"A", "_", "B">>, <<"A", "_", "B">> >>],
                 [id |-> <<"1", "2">>, parts |-> << <<"A", "_", "B">>, <<".", ".">> >>] >>
    /\ tree[1].children[1].name = <<"A", "\\", "B">>

(***************************************************************************)
(* client.py: the file name of a downloaded attachment                     *)
(***************************************************************************)
\* Python's None where a text is expected (no text has a part of four letters)
None == <<"None">>

\* `not x` for a text or None
Falsy(x) == x = None \/ x = <<>>

\* p occurs in s at place i
Occurs(s, p, i) == i + Len(p) - 1 <= Len(s) /\ SubSeq(s, i, i + Len(p) - 1) = p

\* p in s
Contains(s, p) == \E i \in 1..Len(s) : Occurs(s, p, i)

FirstAt(s, p) == CHOOSE i \in 1..Len(s) : Occurs(s, p, i) /\ \A j \in 1..(i - 1) : ~Occurs(s, p, j)
LastAt(s, p) == CHOOSE i \in 1..Len(s) : Occurs(s, p, i) /\ \A j \in (i + 1)..Len(s) : ~Occurs(s, p, j)

\* s.split(p)[-1]
AfterLast(s, p) == IF Contains(s, p) THEN SubSeq(s, LastAt(s, p) + Len(p), Len(s)) ELSE s

\* s.split(p)[0]
BeforeFirst(s, p) == IF Contains(s, p) THEN SubSeq(s, 1, FirstAt(s, p) - 1) ELSE s

\* s.split(p, 1)[1], for p in s
AfterFirst(s, p) == SubSeq(s, FirstAt(s, p) + Len(p), Len(s))

\* s.split(c) for a separator of one character
RECURSIVE Split(_, _)
Split(s, c) ==
    IF Contains(s, <<c>>) THEN <<BeforeFirst(s, <<c>>)>> \o Split(AfterFirst(s, <<c>>), c)
    ELSE <<s>>

\* s.strip(chars)
RECURSIVE StripChars(_, _)
StripChars(s, cs) ==
    IF s = <<>> THEN s
    ELSE IF Head(s) \in cs THEN StripChars(Tail(s), cs)
    ELSE IF s[Len(s)] \in cs THEN StripChars(SubSeq(s, 1, Len(s) - 1), cs)
    ELSE s

\* s.strip()
Whitespace == {" ", "\t", "\n", "\r"}

HexDigits == <<"0", "1", "2", "3", "4", "5", "6", "7", "8", "9",
               "A", "B", "C", "D", "E", "F">>
IsHex(c) == c \in {HexDigits[i] : i \in 1..16} \cup {"a", "b", "c", "d", "e", "f"}
HexVal(c) ==
    IF c \in {HexDigits[i] : i \in 1..16}
    THEN (CHOOSE i \in 1..16 : HexDigits[i] = c) - 1
    ELSE CASE c = "a" -> 10 [] c = "b" -> 11 [] c = "c" -> 12
           [] c = "d" -> 13 [] c = "e" -> 14 [] c = "f" -> 15

\* the character of a byte; the headers of the model escape only these
Chr(code) ==
    CASE code = 32 -> " " [] code = 37 -> "%" [] code = 46 -> "."
      [] code = 47 -> "/" [] code = 97 -> "a" [] code = 98 -> "b"
      [] OTHER -> "?"

\* requests.utils.unquote: every %XX becomes the character of that byte
RECURSIVE Unquote(_)
Unquote(s) ==
    IF s = <<>> THEN s
    ELSE IF Head(s) = "%" /\ Len(s) >= 3 /\ IsHex(s[2]) /\ IsHex(s[3])
         THEN <<Chr(16 * HexVal(s[2]) + HexVal(s[3]))>> \o Unquote(SubSeq(s, 4, Len(s)))
         ELSE <<Head(s)>> \o Unquote(Tail(s))

FilenameStar == <<"f", "i", "l", "e", "n", "a", "m", "e", "*", "=">>
FilenamePlain == <<"f", "i", "l", "e", "n", "a", "m", "e", "=">>
TwoQuotes == <<"'", "'">>

\* _parse_filename, lines 187-196
ParseFilename(disposition) ==
    IF Contains(disposition, FilenameStar)
    THEN LET part == StripChars(BeforeFirst(AfterLast(disposition, FilenameStar), <<";">>),
                                Whitespace)
             tail == IF Contains(part, TwoQuotes) THEN AfterFirst(part, TwoQuotes) ELSE part
         IN  Unquote(StripChars(tail, {"\""}))
    ELSE IF Contains(disposition, FilenamePlain)
    THEN StripChars(StripChars(BeforeFirst(AfterLast(disposition, FilenamePlain), <<";">>),
                               Whitespace), {"\""})
    ELSE None

\* mutant: the name of the header wins over the override
ChooseFilename_HeaderFirst(filename, parsed_name, attachment_id) ==
    IF ~Falsy(parsed_name) THEN parsed_name
    ELSE IF ~Falsy(filename) THEN filename
    ELSE Str(attachment_id)

\* download_attachment, lines 176-177
ChooseFilename(filename, parsed_name, attachment_id) ==
    IF ~Falsy(filename) THEN filename
    ELSE IF ~Falsy(parsed_name) THEN parsed_name
    ELSE Str(attachment_id)

\* Content-Disposition headers the server may send
Attachment == <<"a", "t", "t", "a", "c", "h", "m", "e", "n", "t">>
Utf8 == <<"U", "T", "F", "-", "8">>
NameRPdf == <<"r", ".", "p", "d", "f">>
Quoted(s) == <<"\"">> \o s \o <<"\"">>
Param(key, value) == <<";", " ">> \o key \o value

HdrAbsent == <<>>
HdrNoName == Attachment
HdrPlain == Attachment \o Param(FilenamePlain, Quoted(NameRPdf))
HdrExt == Attachment \o Param(FilenameStar, Utf8 \o TwoQuotes \o <<"r", "%", "2", "E", "p", "d", "f">>)
HdrBoth == Attachment \o Param(FilenamePlain, Quoted(<<"a">>))
                      \o Param(FilenameStar, Utf8 \o TwoQuotes \o <<"b">>)
HdrBothExtFirst == Attachment \o Param(FilenameStar, Utf8 \o TwoQuotes \o <<"b">>)
                              \o Param(FilenamePlain, Quoted(<<"a">>))
HdrEmpty == Attachment \o Param(FilenamePlain, Quoted(<<>>))
HdrUp == Attachment \o Param(FilenamePlain, Quoted(<<".", ".", "/", "a">>))

Headers == {HdrAbsent, HdrNoName, HdrPlain, HdrExt, HdrBoth, HdrBothExtFirst,
            HdrEmpty, HdrUp}

\* download_attachment, lines 174-175: the name parsed from each header
ParsedName == [d \in Headers |-> ParseFilename(d)]

(***************************************************************************)
(* cli.py: export_all_documents and download_attachments                   *)
(***************************************************************************)
MaxExportNodes == 2
MaxAtts == 2

DocumentMd == <<"d", "o", "c", "u", "m", "e", "n", "t", ".", "m", "d">>

\* the document the `download` command is given
DownloadDocId == <<"7">>

\* the names an attachment may declare: "a", "document.md" and ""
AttNames == { <<"a">>, DocumentMd, <<>> }

\* an attachment record of the server: its id is its place in the list; it may
\* come without a name
AttOptions ==
    {[hasName |-> FALSE, name |-> <<>>]} \cup {[hasName |-> TRUE, name |-> n] : n \in AttNames}

\* the `attachments` arrays the server may send (a missing or malformed one
\* reads as the empty list, lines 148-150)
AttLists ==
    UNION { { [j \in 1..m |-> [id |-> j, hasName |-> o[j].hasName, name |-> o[j].name]] :
              o \in [1..m -> AttOptions] } : m \in 0..MaxAtts }

\* open(os.path.join(dir, filename), "w"): the place the file name leads to from
\* dir (from the root when it starts with '/'), and the error when a directory
\* on the way is missing or the place is a directory
OpenForWrite(ds, dir, filename) ==
    LET comps == Split(filename, "/")
        start == IF filename # <<>> /\ filename[1] = "/" THEN <<>> ELSE dir
        n == Len(comps)
        parent == Locate(start, SubSeq(comps, 1, n - 1))
        last == comps[n]
        path == Step(parent, last)
    IN  IF \E k \in 0..(n - 1) : Locate(start, SubSeq(comps, 1, k)) \notin ds
        THEN [err |-> "FileNotFoundError", path |-> path]
        ELSE IF last \in {<<>>, <<".">>, <<".", ".">>} \/ path \in ds
        THEN [err |-> "IsADirectoryError", path |-> path]
        ELSE [err |-> "", path |-> path]

\* f.write: the file at path holds what was written last
WriteFile(fs, path, content) ==
    [p \in DOMAIN fs \cup {path} |-> IF p = path THEN content ELSE fs[p]]

WriteEvent(what, doc, att, path) ==
    [kind |-> "write", what |-> what, doc |-> doc, att |-> att, path |-> path]

\* the document being handled and its directory (dir_path, line 118; the
\* output argument of the download command, line 168)
CurDoc == IF cmd = "export" THEN docs[doc_i].id ELSE DownloadDocId
CurDir == IF cmd = "export" THEN Locate(OutputDir, docs[doc_i].parts) ELSE OutputDir

\* att.get("name"), line 82
DeclaredName(att) == IF att.hasName THEN att.name ELSE None

\* export_all_documents, lines 117-124, with get_document_info (lines 136-137):
\* fetch the document and write document.md
GetDocumentInfo ==
    /\ pc = "get_document_info"
    /\ Throttle
    /\ \E ok \in BOOLEAN :
         LET req == HttpRequest("document", CurDoc, ok)
             out == OpenForWrite(dirs, CurDir, DocumentMd)
         IN  IF ~ok
             THEN /\ pc' = RaiseForStatus(ok, "get_document_attachments")
                  /\ trace' = Append(trace, req)
                  /\ UNCHANGED files
             ELSE IF out.err # ""
             THEN /\ pc' = out.err
                  /\ trace' = Append(trace, req)
                  /\ UNCHANGED files
             ELSE /\ pc' = RaiseForStatus(ok, "get_document_attachments")
                  /\ files' = WriteFile(files, out.path, [doc |-> CurDoc, att |-> 0])
                  /\ trace' = trace \o <<req, WriteEvent("document.md", CurDoc, 0, out.path)>>
    /\ chosen' = <<>>
    /\ UNCHANGED <<cmd, listVars, tree, docs, doc_i, atts, att_j, served, dirs>>

\* after the attachments of a document: the next document, or the end
NextDocPc == IF cmd = "export" /\ doc_i < Len(docs) THEN "get_document_info" ELSE "done"
NextDocIndex == IF cmd = "export" /\ doc_i < Len(docs) THEN doc_i + 1 ELSE doc_i

\* download_attachments, lines 75-76, with get_document_attachments (lines
\* 147-151): make the directory, fetch the document for its attachment list
GetDocumentAttachments ==
    /\ pc = "get_document_attachments"
    /\ Throttle
    /\ dirs' = Makedirs(dirs, CurDir, <<>>)
    /\ \E ok \in BOOLEAN, attachments \in AttLists :
         /\ trace' = Append(trace, HttpRequest("document", CurDoc, ok))
         /\ IF ~ok
            THEN /\ pc' = RaiseForStatus(ok, "download_attachment")
                 /\ UNCHANGED <<atts, att_j, served, doc_i>>
            ELSE /\ atts' = attachments
                 /\ served' = Append(served, [doc |-> CurDoc, dir |-> CurDir,
                                              atts |-> attachments])
                 /\ att_j' = 1
                 /\ IF attachments = <<>>
                    THEN pc' = NextDocPc /\ doc_i' = NextDocIndex
                    ELSE pc' = RaiseForStatus(ok, "download_attachment") /\ UNCHANGED doc_i
    /\ chosen' = <<>>
    /\ UNCHANGED <<cmd, listVars, tree, docs, files>>

\* download_attachments, lines 77-84, with download_attachment (lines 168-182):
\* fetch one attachment, choose its file name, write it, report it
DownloadAttachment ==
    /\ pc = "download_attachment"
    /\ Throttle
    /\ \E ok \in BOOLEAN, disposition \in Headers :
         LET att == atts[att_j]
             req == HttpRequest("attachment", <<CurDoc, att.id>>, ok)
             filename == ChooseFilename(DeclaredName(att), ParsedName[disposition], att.id)
             out == OpenForWrite(dirs, CurDir, filename)
             last == att_j = Len(atts)
         IN  IF ~ok
             THEN /\ pc' = RaiseForStatus(ok, "download_attachment")
                  /\ trace' = Append(trace, req)
                  /\ chosen' = <<>> /\ UNCHANGED <<files, att_j, doc_i>>
             ELSE IF out.err # ""
             THEN /\ pc' = out.err
                  /\ trace' = Append(trace, req)
                  /\ chosen' = <<>> /\ UNCHANGED <<files, att_j, doc_i>>
             ELSE /\ files' = WriteFile(files, out.path, [doc |-> CurDoc, att |-> att.id])
                  /\ trace' = trace \o
                       <<req, WriteEvent("attachment", CurDoc, att.id, out.path)>>
                  /\ chosen' = IF cmd = "download"
                               THEN <<[override |-> DeclaredName(att),
                                       disposition |-> disposition,
                                       attachment_id |-> att.id,
                                       output_dir |-> CurDir,
                                       filename |-> filename,
                                       path |-> out.path]>>
                               ELSE <<>>
                  /\ IF ~att.hasName
                     THEN \* line 84: att['name']
                          pc' = "KeyError" /\ UNCHANGED <<att_j, doc_i>>
                     ELSE IF last
                     THEN pc' = NextDocPc /\ doc_i' = NextDocIndex /\ UNCHANGED att_j
                     ELSE pc' = "download_attachment" /\ att_j' = att_j + 1 /\ UNCHANGED doc_i
    /\ UNCHANGED <<cmd, listVars, tree, docs, atts, served, dirs>>

\* main(), lines 167-168: the download command
InitDownload ==
    /\ pc = "get_document_attachments"
    /\ cmd = "download"
    /\ ListIdle
    /\ tree = <<>>
    /\ docs = <<>>
    /\ doc_i = 0
    /\ atts = <<>>
    /\ att_j = 0
    /\ served = <<>>
    /\ chosen = <<>>
    /\ dirs = InitialDirs
    /\ files = <<>>
    /\ LimiterIdle
    /\ wall = StartTime
    /\ last_call = 0
    /\ trace = <<>>

NextDownload ==
    \/ GetDocumentAttachments
    \/ DownloadAttachment

SpecDownload == InitDownload /\ [][NextDownload]_vars

\* main(), lines 169-170: the export command
InitExport ==
    /\ pc = "get_project_id"
    /\ cmd = "export"
    /\ ListIdle
    /\ tree \in Forests(MaxExportNodes)
    /\ docs = <<>>
    /\ doc_i = 0
    /\ atts = <<>>
    /\ att_j = 0
    /\ served = <<>>
    /\ chosen = <<>>
    /\ dirs = InitialDirs
    /\ files = <<>>
    /\ LimiterIdle
    /\ wall = StartTime
    /\ last_call = 0
    /\ trace = <<>>

NextExport ==
    \/ GetProjectId
    \/ GetDocumentTree
    \/ GetDocumentInfo
    \/ GetDocumentAttachments
    \/ DownloadAttachment

SpecExport == InitExport /\ [][NextExport]_vars

(***************************************************************************)
(* download_attachment: the claim                                          *)
(***************************************************************************)
\* the header carries the extended, the plain form of the file name
HasExtended(d) == Contains(d, FilenameStar)
HasPlain(d) == Contains(d, FilenamePlain)

\* the file name each header of the model spells out, read off the header by
\* hand: the extended form when it is there, else the plain form
Derived(d) ==
    CASE d = HdrPlain -> NameRPdf
      [] d = HdrExt -> NameRPdf
      [] d = HdrBoth -> <<"b">>
      [] d = HdrBothExtFirst -> <<"b">>
      [] d = HdrEmpty -> <<>>
      [] d = HdrUp -> <<".", ".", "/", "a">>

\* C5 as stated: the file name is the override when one is given, otherwise the
\* name derived from the header when it carries one of the two forms,
\* otherwise the attachment's identifier.
C5_NameOrderAsStated ==
    chosen # <<>> =>
        LET c == chosen[1] IN
        c.filename = IF c.override # None THEN c.override
                     ELSE IF HasExtended(c.disposition) \/ HasPlain(c.disposition)
                          THEN Derived(c.disposition)
                          ELSE Str(c.attachment_id)

\* C5, amended: the file name is the override when one is given and not empty;
\* otherwise the name derived from the Content-Disposition header (the extended
\* form when present, else the plain form) when that name is not empty;
\* otherwise the attachment's identifier as a string.  The bytes are written to
\* output_dir/<that name>, which is the path returned.
C5_NameOrder ==
    chosen # <<>> =>
        LET c == chosen[1]
            has == HasExtended(c.disposition) \/ HasPlain(c.disposition)
        IN  /\ c.filename =
                 IF c.override # None /\ c.override # <<>> THEN c.override
                 ELSE IF has /\ Derived(c.disposition) # <<>> THEN Derived(c.disposition)
                 ELSE Str(c.attachment_id)
            /\ c.path = Locate(c.output_dir, Split(c.filename, "/"))
            /\ c.path \in DOMAIN files
            /\ files[c.path] = [doc |-> DownloadDocId, att |-> c.attachment_id]

\* an attachment without declared name was saved under the name of the extended
\* form, although the header carries the plain form too
C5_Witness ==
    /\ chosen # <<>>
    /\ chosen[1].override = None
    /\ chosen[1].disposition = HdrBoth
    /\ chosen[1].filename = <<"b">>
    /\ chosen[1].path = Append(OutputDir, <<"b">>)

(***************************************************************************)
(* export_all_documents: the claims                                        *)
(***************************************************************************)
Requests == SelectSeq(trace, LAMBDA e : e.kind = "request")
Writes == SelectSeq(trace, LAMBDA e : e.kind = "write")

AllRequestsOk == \A k \in 1..Len(Requests) : Requests[k].ok

\* the command has ended, with the error named or without ("done")
Ended == pc \in {"done", "RuntimeError", "KeyError", "FileNotFoundError", "IsADirectoryError"}

\* document.md and every attachment the server listed were written
AllWritten ==
    /\ \A i \in 1..Len(docs) :
         \E k \in 1..Len(Writes) :
            Writes[k].what = "document.md" /\ Writes[k].doc = docs[i].id
    /\ Len(served) = Len(docs)
    /\ \A i \in 1..Len(served) : \A j \in 1..Len(served[i].atts) :
         \E k \in 1..Len(Writes) :
            /\ Writes[k].what = "attachment"
            /\ Writes[k].doc = served[i].doc
            /\ Writes[k].att = served[i].atts[j].id

\* C6: when every API request succeeds (and the project has statuses and no
\* file fails to open), export writes document.md and downloads every
\* attachment of every document, also those without a declared name, and runs
\* to its end.
C6_ExportCompletes ==
    (cmd = "export" /\ Ended /\ AllRequestsOk
       /\ pc \notin {"RuntimeError", "FileNotFoundError", "IsADirectoryError"}) =>
        (pc = "done" /\ AllWritten)

\* C7: a request that got a non-2xx answer is the last thing export does: it
\* ends in the RuntimeError, with no request and no write after it.
C7_FailureEndsExport ==
    \A k \in 1..Len(trace) :
        (trace[k].kind = "request" /\ ~trace[k].ok) =>
            (k = Len(trace) /\ pc = "RuntimeError")

\* the download of a second attachment failed after files had been written
C7_Witness ==
    /\ cmd = "export"
    /\ pc = "RuntimeError"
    /\ Len(Writes) >= 2
    /\ trace[Len(trace)].kind = "request"
    /\ trace[Len(trace)].what = "attachment"
    /\ ~trace[Len(trace)].ok

\* C9: in an export run distinct documents of the tree get distinct
\* directories, and no file written is written again in the same run.
C9_NoOverwrite ==
    /\ Gathered =>
         \A i, j \in 1..Len(docs) :
            i # j => Locate(OutputDir, docs[i].parts) # Locate(OutputDir, docs[j].parts)
    /\ \A a, b \in 1..Len(Writes) : a # b => Writes[a].path # Writes[b].path

\* p is the output directory or lies below it
Inside(p) == Len(p) >= Len(OutputDir) /\ SubSeq(p, 1, Len(OutputDir)) = OutputDir

\* C10: every directory export makes and every file it writes lies inside the
\* output directory.
C10_StaysInside ==
    /\ \A d \in dirs \ InitialDirs : Inside(d)
    /\ \A k \in 1..Len(Writes) : Inside(Writes[k].path) /\ Writes[k].path # OutputDir

====
